---- MODULE Spec2Model ----
(***************************************************************************)
(* Colour quality bar charts (colour/plotting/quality.py).                 *)
(*                                                                         *)
(* The module models the shared renderer colour_quality_bars_plot and the  *)
(* four CRI / CQS wrappers around it as a state machine whose state is the *)
(* running call (its arguments, its local variables, the chart it draws    *)
(* into and the log of collaborator calls it has made).                    *)
(*                                                                         *)
(* Real numbers are fixed point: 1.0 is written Unit, so 0.5 is 50 and a   *)
(* tristimulus value of (50, 100, 20) is <<5000, 10000, 2000>>.            *)
(***************************************************************************)
EXTENDS Integers, Sequences, FiniteSets, TLC

VARIABLES
    pc,              \* position of the running call
    entry,           \* the function the caller invoked
    arg,             \* its positional argument (spd, spds or specifications)
    kwargs,          \* its keyword arguments (the options bag)
    spds,            \* wrapper local: the list of distributions
    settings,        \* wrapper local: the bag handed to the next callee
    specifications,  \* wrapper local: the computed specifications
    chart,           \* the figure/axes the call draws into
    calls,           \* the collaborator calls made so far, in order
    result,          \* what the call returned
    prev             \* calls and result of the call made just before

vars == <<pc, entry, arg, kwargs, spds, settings, specifications, chart,
          calls, result, prev>>

----------------------------------------------------------------------------
(* Bounds of the model. *)

\* longest list of specifications handed to the renderer directly
MaxSpecs == 7
\* longest list of distributions handed to a multi-input wrapper
MaxSpds == 2
\* test colour samples per specification
NSamples == 2
\* largest hatching_repeat a caller passes
MaxRepeat == 3

----------------------------------------------------------------------------
(* Values. *)

Unit == 100

None == "None"

Abs(v) == IF v < 0 THEN -v ELSE v

\* dict.update: the right bag wins on every key it carries.
Update(d, e) ==
    [k \in (DOMAIN d) \cup (DOMAIN e) |-> IF k \in DOMAIN e THEN e[k] ELSE d[k]]

Empty == [k \in {} |-> TRUE]

Get(d, k, default) == IF k \in DOMAIN d THEN d[k] ELSE default

\* The keyword arguments python binds to the renderer's named parameters;
\* the rest is what the renderer sees as **kwargs.
NamedParameters == {"labels", "hatching", "hatching_repeat"}

Rest(d) == [k \in (DOMAIN d) \ NamedParameters |-> d[k]]

----------------------------------------------------------------------------
(* Collaborators: the distributions and the two quality functions.  Their  *)
(* results are fixed tables, one row per distribution.                     *)

SPDS == <<"F2", "Kinoton 75P">>

SpdNames == {SPDS[p] : p \in DOMAIN SPDS}

SpdIndex(spd) == CHOOSE p \in DOMAIN SPDS : SPDS[p] = spd

strict_name(spd) == spd

\* the samples' names, TCS1 ... and VS1 ...
SampleNames ==
    [prefix \in {"TCS", "VS"} |->
        [k \in 1..NSamples |-> prefix \o ToString(k)]]

TCSName(k) == SampleNames["TCS"][k]

VSName(k) == SampleNames["VS"][k]

\* The iteration order of the Q_as mapping: a dict has no key order.
DictOrder(p, n) ==
    [j \in 1..n |-> IF p = 1 THEN n + 1 - j ELSE (j % n) + 1]

CRIScore(p, k) ==
    IF p = 2 /\ k = 2 THEN 0 ELSE ((p * 47 + k * 61) % 140) - 30

CRITestXYZ(p, k) ==
    IF p = 1 /\ k = 1 THEN <<5000, 10000, 2000>>
    ELSE <<((p * 31 + k * 17) % 11) * 1000,
           ((p * 13 + k * 29) % 11) * 1000,
           ((p * 7 + k * 43) % 11) * 1000>>

CRIReferenceXYZ(p, k) ==
    <<((p * 19 + k * 23) % 11) * 1000,
      ((p * 11 + k * 5) % 11) * 1000,
      ((p * 3 + k * 37) % 11) * 1000>>

CRITable(spd) ==
    LET p == SpdIndex(spd)
        order == DictOrder(p, NSamples)
    IN  [name |-> spd,
         Q_a |-> IF p = 2 THEN -44 ELSE 64,
         Q_as |-> [j \in 1..NSamples |->
                     [key |-> order[j], name |-> TCSName(order[j]),
                      Q_a |-> CRIScore(p, order[j])]],
         colorimetry_data |->
            << [k \in 1..NSamples |->
                  [name |-> TCSName(k), XYZ |-> CRITestXYZ(p, k),
                   uv |-> <<20 + k, 30 + p>>, UVW |-> <<k, p, k + p>>]],
               [k \in 1..NSamples |->
                  [name |-> TCSName(k), XYZ |-> CRIReferenceXYZ(p, k),
                   uv |-> <<21 + k, 31 + p>>, UVW |-> <<p, k, k + p>>]] >>]

CQSScore(p, k) ==
    IF p = 2 /\ k = 1 THEN 0 ELSE ((p * 59 + k * 41) % 130) - 25

CQSTestXYZ(p, k) ==
    <<((p * 17 + k * 31) % 11) * 10,
      ((p * 29 + k * 13) % 11) * 10,
      ((p * 43 + k * 7) % 11) * 10>>

CQSReferenceXYZ(p, k) ==
    <<((p * 23 + k * 19) % 11) * 10,
      ((p * 5 + k * 11) % 11) * 10,
      ((p * 37 + k * 3) % 11) * 10>>

CQSTable(spd) ==
    LET p == SpdIndex(spd)
        order == DictOrder(3 - p, NSamples)
    IN  [name |-> spd,
         Q_a |-> IF p = 2 THEN -12 ELSE 70,
         Q_as |-> [j \in 1..NSamples |->
                     [key |-> order[j], name |-> VSName(order[j]),
                      Q_a |-> CQSScore(p, order[j])]],
         colorimetry_data |->
            << [k \in 1..NSamples |->
                  [name |-> VSName(k), XYZ |-> CQSTestXYZ(p, k),
                   Lab |-> <<k, p, 0>>, C |-> k * p]],
               [k \in 1..NSamples |->
                  [name |-> VSName(k), XYZ |-> CQSReferenceXYZ(p, k),
                   Lab |-> <<p, k, 0>>, C |-> k + p]] >>]

QualityTables ==
    [f \in {"cri", "cqs"} |->
        [spd \in SpdNames |-> IF f = "cri" THEN CRITable(spd) ELSE CQSTable(spd)]]

\* colour_rendering_index(spd, additional_data=True)
colour_rendering_index(spd) == QualityTables["cri"][spd]

\* colour_quality_scale(spd, additional_data=True)
colour_quality_scale(spd) == QualityTables["cqs"][spd]

\* TCS_ColorimetryData(name, XYZ, uv, UVW)
TCS_ColorimetryData(name, XYZ, uv, UVW) ==
    [name |-> name, XYZ |-> XYZ, uv |-> uv, UVW |-> UVW]

----------------------------------------------------------------------------
(* Collaborators: colourspace conversion and the style constants.          *)

\* XYZ to the display colourspace: the sRGB matrix, in fixed point.
XYZ_to_plotting_colourspace(XYZ) ==
    << (324 * XYZ[1] - 154 * XYZ[2] - 50 * XYZ[3]) \div Unit,
       (-97 * XYZ[1] + 188 * XYZ[2] + 4 * XYZ[3]) \div Unit,
       (6 * XYZ[1] - 20 * XYZ[2] + 106 * XYZ[3]) \div Unit >>

\* COLOUR_STYLE_CONSTANTS.hatch.patterns
patterns == <<"\\\\", "o", "x", ".", "*", "//">>

dark == "dark"

----------------------------------------------------------------------------
(* Collaborators: figure provisioning and chart finalization.              *)

NewChart ==
    [bars |-> <<>>, hlines |-> <<>>, xticks |-> <<>>, xticklabels |-> <<>>,
     yticks |-> <<>>, title |-> None, legend |-> FALSE, shown |-> 0]

\* artist(**settings): a fresh figure and axes.
artist(s) == NewChart

\* render(**settings): applies the title and the legend flag it is given and,
\* unless standalone is False, composes (shows) the chart.
render(s, c) ==
    [c EXCEPT !.title = Get(s, "title", c.title),
              !.legend = c.legend \/ Get(s, "legend", FALSE),
              !.shown = IF Get(s, "standalone", TRUE) THEN c.shown + 1
                        ELSE c.shown]

Call(fn, a) == [fn |-> fn, args |-> a]

----------------------------------------------------------------------------
(* colour_quality_bars_plot, the renderer.                                 *)

bar_width == Unit \div 2

y_ticks_interval == 10

White == <<Unit, Unit, Unit>>

\* np.clip(v, 0, 1) on one colour
Clip(rgb) ==
    [c \in 1..3 |-> IF rgb[c] < 0 THEN 0
                    ELSE IF rgb[c] > Unit THEN Unit ELSE rgb[c]]

\* np.arange(start, stop, step)
Arange(start, stop, step) ==
    [n \in 1..((stop - start + step - 1) \div step) |-> start + (n - 1) * step]

\* range(start, stop, step)
Range(start, stop, step) == Arange(start, stop, step)

\* sorted(Q_as.items(), key=lambda s: s[0])
RECURSIVE SortedItems(_)
SortedItems(items) ==
    IF items = <<>> THEN <<>>
    ELSE LET m == CHOOSE i \in DOMAIN items :
                     /\ \A j \in DOMAIN items : items[i].key <= items[j].key
                     /\ \A j \in 1..(i - 1) : items[j].key # items[i].key
         IN  <<items[m]>> \o
             SortedItems([j \in 1..(Len(items) - 1) |->
                             IF j < m THEN items[j] ELSE items[j + 1]])

\* faulty variant: an explicit hatching value is ignored
ResolveHatchingIgnoresExplicit(kw, count_s) ==
    IF count_s = 1 THEN FALSE ELSE TRUE

\* hatching = False if count_s == 1 else True, when left at None
ResolveHatching(kw, count_s) ==
    IF "hatching" \in DOMAIN kw THEN kw["hatching"]
    ELSE (IF count_s = 1 THEN FALSE ELSE TRUE)

\* faulty variant: the palette is restarted for every specification
NextPatternRestarted(i) == patterns[1]

\* the i-th value (0-based) drawn from cycle(patterns)
NextPattern(i) == patterns[(i % Len(patterns)) + 1]

\* str * n
RECURSIVE Repeat(_, _)
Repeat(str, n) == IF n <= 0 THEN "" ELSE str \o Repeat(str, n - 1)

\* colours = [[1] * 3] + [clip(convert(x.XYZ)) for x in colorimetry_data[0]]
Colours(specification) ==
    LET samples == specification.colorimetry_data[1]
    IN  <<White>> \o
        [j \in 1..Len(samples) |->
            Clip(XYZ_to_plotting_colourspace(samples[j].XYZ))]

\* faulty variant: the groups are laid out with no gap between them
BarXNoGap(i, count_Q_as, count_s) ==
    LET a == Arange(0, (count_Q_as + 1) * count_s, count_s)
    IN  [k \in DOMAIN a |-> (i + a[k]) * bar_width]

\* x = (i + arange(0, (count_Q_as + 1) * (count_s + 1), count_s + 1)) * bar_width
BarX(i, count_Q_as, count_s) ==
    LET a == Arange(0, (count_Q_as + 1) * (count_s + 1), count_s + 1)
    IN  [k \in DOMAIN a |-> (i + a[k]) * bar_width]

\* faulty variant: the scores are taken in the mapping's iteration order
BarYUnsorted(specification) ==
    <<specification.Q_a>> \o
    [j \in DOMAIN specification.Q_as |-> specification.Q_as[j].Q_a]

\* y = [Q_a] + [s[1].Q_a for s in sorted(Q_as.items())]
BarY(specification) ==
    LET sorted == SortedItems(specification.Q_as)
    IN  <<specification.Q_a>> \o [j \in DOMAIN sorted |-> sorted[j].Q_a]

\* faulty variant: a score of zero is flagged like a negative one
HatchesNonPositive(i, y, count_Q_as, hatching, hatching_repeat) ==
    IF hatching
    THEN [j \in 1..(count_Q_as + 1) |-> Repeat(NextPattern(i), hatching_repeat)]
    ELSE [j \in DOMAIN y |-> IF y[j] <= 0 THEN NextPattern(i) ELSE None]

\* hatches = [next(patterns) * hatching_repeat] * (count_Q_as + 1)
\*           if hatching else where(y < 0, next(patterns), None)
Hatches(i, y, count_Q_as, hatching, hatching_repeat) ==
    IF hatching
    THEN [j \in 1..(count_Q_as + 1) |-> Repeat(NextPattern(i), hatching_repeat)]
    ELSE [j \in DOMAIN y |-> IF y[j] < 0 THEN NextPattern(i) ELSE None]

\* One pass of the loop over the specifications: the bar container drawn for
\* specification number i (0-based).
Bars(i, specification, count_s, hatching, hatching_repeat, labels) ==
    LET count_Q_as == Len(specification.Q_as)
        colours == Colours(specification)
        x == BarX(i, count_Q_as, count_s)
        y == BarY(specification)
        hatches == Hatches(i, y, count_Q_as, hatching, hatching_repeat)
    IN  [label |-> specification.name,
         patches |-> [j \in DOMAIN x |->
                        [x |-> x[j], height |-> Abs(y[j]), width |-> bar_width,
                         color |-> colours[j], edgecolor |-> dark,
                         hatch |-> hatches[j]]],
         annotations |-> IF labels THEN y ELSE <<>>]

\* label_rectangles(y, bars, rotation=..., offset=..., text_size=...)
LabelCall(i, y, count_s) ==
    Call("label_rectangles",
         [bars |-> i, y |-> y,
          rotation |-> IF count_s = 1 THEN "horizontal" ELSE "vertical",
          offset |-> <<IF count_s = 1 THEN 0 ELSE 30 * count_s + 65, 25>>,
          text_size |-> <<175 - 10 * count_s, 14>>])

\* the positions handed to set_xticks
XTicks(count_Q_as, count_s) ==
    LET a == Arange(0, (count_Q_as + 1) * (count_s + 1), count_s + 1)
    IN  [k \in DOMAIN a |-> a[k] * bar_width + (count_s * bar_width) \div 2]

\* ['Qa'] + ['Q{0}'.format(index + 1) for index in range(0, count_Q_as + 1, 1)]
XTickLabels(count_Q_as) ==
    LET r == Range(0, count_Q_as + 1, 1)
    IN  <<"Qa">> \o [n \in DOMAIN r |-> "Q" \o ToString(r[n] + 1)]

YTicks == Range(0, 100 + y_ticks_interval, y_ticks_interval)

RendererSettings(axes, count_Q_as, count_s, hatching, kw) ==
    Update([axes |-> axes,
            aspect |-> <<bar_width + count_Q_as * Unit + bar_width * 2, 120 * Unit>>,
            bounding_box |-> <<-bar_width,
                               ((count_Q_as + 1) * (count_s + 1) * Unit) \div 2,
                               0, 120 * Unit>>,
            legend |-> hatching,
            title |-> "Colour Quality"],
           kw)

\* The whole renderer: the chart it leaves, the collaborator calls it makes
\* and the figure/axes it returns.
colour_quality_bars_plot(specs, options) ==
    LET kw == Rest(options)
        labels == Get(options, "labels", TRUE)
        hatching_repeat == Get(options, "hatching_repeat", 2)
        first == Update([uniform |-> TRUE], kw)
        count_s == Len(specs)
        hatching == ResolveHatching(options, count_s)
        count_Q_as == Len(specs[count_s].Q_as)
        containers == [n \in 1..count_s |->
                         Bars(n - 1, specs[n], count_s, hatching,
                              hatching_repeat, labels)]
        drawn == [artist(first) EXCEPT
                     !.bars = containers,
                     !.hlines = <<[y |-> 100, color |-> dark, linestyle |-> "--"]>>,
                     !.xticks = XTicks(count_Q_as, count_s),
                     !.xticklabels = XTickLabels(count_Q_as),
                     !.yticks = YTicks]
        last == RendererSettings("axes", count_Q_as, count_s, hatching, kw)
        RECURSIVE LoopCalls(_)
        LoopCalls(n) ==
            IF n = 0 THEN <<>>
            ELSE LoopCalls(n - 1) \o
                 <<Call("bar", [label |-> specs[n].name,
                                x |-> BarX(n - 1, Len(specs[n].Q_as), count_s)])>> \o
                 (IF labels THEN <<LabelCall(n - 1, BarY(specs[n]), count_s)>>
                  ELSE <<>>)
        final == render(last, drawn)
    IN  [chart |-> final,
         calls |-> <<Call("artist", first)>> \o LoopCalls(count_s) \o
                   <<Call("axhline", [y |-> 100]),
                     Call("set_xticks", [ticks |-> drawn.xticks,
                                         labels |-> drawn.xticklabels]),
                     Call("set_yticks", [ticks |-> YTicks]),
                     Call("render", last)>>,
         result |-> final]

----------------------------------------------------------------------------
(* The wrappers' own steps.                                                *)

Family(e) == IF e \in {"single_cri", "multi_cri"} THEN "cri" ELSE "cqs"

\* faulty variant: the distribution is handed over twice
SingleArgsTwice(spd) == <<spd, spd>>

\* single_spd_*_bars_plot(spd, **kwargs): multi_spd_*_bars_plot([spd], **kwargs)
SingleArgs(spd) == <<spd>>

\* faulty variant: the caller's standalone wins over the forced False
WrapperSettingsCallerWins(kw) == Update([standalone |-> FALSE], kw)

\* settings = dict(kwargs); settings.update({'standalone': False})
WrapperSettings(kw) == Update(kw, [standalone |-> FALSE])

\* [quality(spd, additional_data=True) for spd in spds]
Compute(family, list) ==
    [i \in DOMAIN list |-> IF family = "cri" THEN colour_rendering_index(list[i])
                           ELSE colour_quality_scale(list[i])]

ComputeCalls(family, list) ==
    [i \in DOMAIN list |->
        Call(IF family = "cri" THEN "colour_rendering_index"
             ELSE "colour_quality_scale",
             [spd |-> list[i], additional_data |-> TRUE])]

\* c_d.XYZ / 100
Scale(XYZ) == [c \in DOMAIN XYZ |-> XYZ[c] \div 100]

\* colorimetry_data[0][i] = TCS_ColorimetryData(name, XYZ / 100, uv, UVW)
RescaleSamples(samples) ==
    [i \in DOMAIN samples |->
        TCS_ColorimetryData(samples[i].name, Scale(samples[i].XYZ),
                            samples[i].uv, samples[i].UVW)]

\* faulty variant: the reference list is rescaled too
RescaleBothLists(specs) ==
    [n \in DOMAIN specs |->
        [specs[n] EXCEPT !.colorimetry_data[1] = RescaleSamples(@),
                         !.colorimetry_data[2] = RescaleSamples(@)]]

Rescale(specs) ==
    [n \in DOMAIN specs |->
        [specs[n] EXCEPT !.colorimetry_data[1] = RescaleSamples(@)]]

\* ', '.join(names)
RECURSIVE Join(_)
Join(names) ==
    IF names = <<>> THEN ""
    ELSE IF Len(names) = 1 THEN names[1]
    ELSE names[1] \o ", " \o Join(Tail(names))

TitlePrefix(family) ==
    IF family = "cri" THEN "Colour Rendering Index - "
    ELSE "Colour Quality Scale - "

\* faulty variant: the names are joined last to first
TitleReversed(family, list) ==
    TitlePrefix(family) \o
    Join([i \in DOMAIN list |-> strict_name(list[Len(list) + 1 - i])])

\* 'Colour ... - {0}'.format(', '.join([spd.strict_name for spd in spds]))
Title(family, list) ==
    TitlePrefix(family) \o Join([i \in DOMAIN list |-> strict_name(list[i])])

\* settings = {'axes': axes, 'title': title}; settings.update(kwargs)
FinalSettings(axes, title, kw) == Update([axes |-> axes, title |-> title], kw)

----------------------------------------------------------------------------
(* The callers' inputs.                                                    *)

Lists(S, n) == UNION {[1..m -> S] : m \in 1..n}

\* options a caller gives a wrapper
WrapperOptions ==
    {Update(Update(a, b), c) :
        a \in {Empty, [standalone |-> TRUE], [standalone |-> FALSE]},
        b \in {Empty, [title |-> "Custom"]},
        c \in {Empty, [hatching |-> TRUE], [hatching |-> FALSE]}}

\* options a caller gives the renderer
RendererOptions ==
    {Update(Update(a, b), c) :
        a \in {Empty, [labels |-> FALSE]},
        b \in {Empty, [hatching |-> TRUE], [hatching |-> FALSE]},
        c \in {Empty} \cup {[hatching_repeat |-> r] : r \in {1, MaxRepeat}}}

NoPrev == [set |-> FALSE, calls |-> <<>>, result |-> NewChart]

----------------------------------------------------------------------------
(* The state machine.                                                      *)

Init ==
    /\ pc = "idle"
    /\ entry = "none"
    /\ arg = <<>>
    /\ kwargs = Empty
    /\ spds = <<>>
    /\ settings = Empty
    /\ specifications = <<>>
    /\ chart = NewChart
    /\ calls = <<>>
    /\ result = NewChart
    /\ prev = NoPrev

\* colour_quality_bars_plot(specifications, **options), called directly on
\* specifications the colour quality scale produced
CallBars ==
    /\ pc = "idle"
    /\ \E list \in Lists(SpdNames, MaxSpecs), o \in RendererOptions :
          LET specs == [i \in DOMAIN list |-> colour_quality_scale(list[i])]
              r == colour_quality_bars_plot(specs, o)
          IN  /\ arg' = specs
              /\ kwargs' = o
              /\ chart' = r.chart
              /\ calls' = r.calls
              /\ result' = r.result
    /\ pc' = "done"
    /\ entry' = "bars"
    /\ UNCHANGED <<spds, settings, specifications, prev>>

\* single_spd_*_bars_plot(spd, **options) is entered
CallSingle ==
    /\ pc = "idle"
    /\ \E e \in {"single_cri", "single_cqs"}, spd \in SpdNames,
          o \in WrapperOptions :
          /\ entry' = e
          /\ arg' = spd
          /\ kwargs' = o
    /\ pc' = "single"
    /\ UNCHANGED <<spds, settings, specifications, chart, calls, result, prev>>

\* ... and hands over to the multi-input wrapper
Delegate ==
    /\ pc = "single"
    /\ spds' = SingleArgs(arg)
    /\ pc' = "entered"
    /\ UNCHANGED <<entry, arg, kwargs, settings, specifications, chart, calls,
                   result, prev>>

\* multi_spd_*_bars_plot(spds, **options) is entered
CallMulti ==
    /\ pc = "idle"
    /\ \E e \in {"multi_cri", "multi_cqs"}, list \in Lists(SpdNames, MaxSpds),
          o \in WrapperOptions :
          /\ entry' = e
          /\ arg' = list
          /\ spds' = list
          /\ kwargs' = o
    /\ pc' = "entered"
    /\ UNCHANGED <<settings, specifications, chart, calls, result, prev>>

\* the specifications are computed
ComputeStep ==
    /\ pc = "entered"
    /\ settings' = WrapperSettings(kwargs)
    /\ specifications' = Compute(Family(entry), spds)
    /\ calls' = calls \o ComputeCalls(Family(entry), spds)
    /\ pc' = "computed"
    /\ UNCHANGED <<entry, arg, kwargs, spds, chart, result, prev>>

\* CRI only: the tristimulus values are brought to the [0, 1] domain
RescaleStep ==
    /\ pc = "computed"
    /\ Family(entry) = "cri"
    /\ specifications' = Rescale(specifications)
    /\ pc' = "rescaled"
    /\ UNCHANGED <<entry, arg, kwargs, spds, settings, chart, calls, result, prev>>

\* figure, axes = colour_quality_bars_plot(specifications, **settings)
RendererStep ==
    /\ pc = IF Family(entry) = "cri" THEN "rescaled" ELSE "computed"
    /\ LET r == colour_quality_bars_plot(specifications, settings)
       IN  /\ chart' = r.chart
           /\ calls' = calls \o
                       <<Call("colour_quality_bars_plot", settings)>> \o r.calls
    /\ pc' = "rendered"
    /\ UNCHANGED <<entry, arg, kwargs, spds, settings, specifications, result, prev>>

\* the title is built and the final settings are merged
RetitleStep ==
    /\ pc = "rendered"
    /\ settings' = FinalSettings("axes", Title(Family(entry), spds), kwargs)
    /\ pc' = "titled"
    /\ UNCHANGED <<entry, arg, kwargs, spds, specifications, chart, calls,
                   result, prev>>

\* return render(**settings)
FinalizeStep ==
    /\ pc = "titled"
    /\ chart' = render(settings, chart)
    /\ calls' = calls \o <<Call("render", settings)>>
    /\ result' = chart'
    /\ pc' = "done"
    /\ UNCHANGED <<entry, arg, kwargs, spds, settings, specifications, prev>>

\* after a single-input call, the caller makes the multi-input call on the
\* one-element list with the same options
CallMultiAgain ==
    /\ pc = "done"
    /\ entry \in {"single_cri", "single_cqs"}
    /\ prev' = [set |-> TRUE, calls |-> calls, result |-> result]
    /\ entry' = IF entry = "single_cri" THEN "multi_cri" ELSE "multi_cqs"
    /\ arg' = <<arg>>
    /\ spds' = <<arg>>
    /\ pc' = "entered"
    /\ settings' = Empty
    /\ specifications' = <<>>
    /\ chart' = NewChart
    /\ calls' = <<>>
    /\ result' = NewChart
    /\ UNCHANGED kwargs

\* the caller drops the figure
Return ==
    /\ pc = "done"
    /\ pc' = "idle"
    /\ entry' = "none"
    /\ arg' = <<>>
    /\ kwargs' = Empty
    /\ spds' = <<>>
    /\ settings' = Empty
    /\ specifications' = <<>>
    /\ chart' = NewChart
    /\ calls' = <<>>
    /\ result' = NewChart
    /\ prev' = NoPrev

Next ==
    \/ CallBars
    \/ CallSingle
    \/ Delegate
    \/ CallMulti
    \/ ComputeStep
    \/ RescaleStep
    \/ RendererStep
    \/ RetitleStep
    \/ FinalizeStep
    \/ CallMultiAgain
    \/ Return

Spec == Init /\ [][Next]_vars

----------------------------------------------------------------------------
(* What the properties below read off a state.                             *)

IsWrapper == entry \in {"single_cri", "multi_cri", "single_cqs", "multi_cqs"}

\* the renderer has run: its bars, ticks and settings are on the chart
Drawn ==
    \/ entry = "bars" /\ pc = "done"
    \/ IsWrapper /\ pc \in {"rendered", "titled", "done"}

\* the specifications the renderer was given
GivenSpecs == IF entry = "bars" THEN arg ELSE specifications

HatchingAuto == "hatching" \notin DOMAIN kwargs

HatchingDisabled ==
    \/ ~HatchingAuto /\ kwargs["hatching"] = FALSE
    \/ HatchingAuto /\ Len(GivenSpecs) = 1

HatchingEnabled ==
    \/ ~HatchingAuto /\ kwargs["hatching"] = TRUE
    \/ HatchingAuto /\ Len(GivenSpecs) > 1

Items(specification) ==
    {specification.Q_as[j] : j \in DOMAIN specification.Q_as}

\* the entry of Q_as with the j-th smallest key
Ranked(specification, j) ==
    CHOOSE it \in Items(specification) :
        Cardinality({o \in Items(specification) : o.key < it.key}) = j - 1

\* the score bar number j (from 1) of a specification stands for
Score(specification, j) ==
    IF j = 1 THEN specification.Q_a ELSE Ranked(specification, j - 1).Q_a

\* the colorimetry record of the sample of that name
SampleNamed(specification, name) ==
    CHOOSE x \in {specification.colorimetry_data[1][m] :
                    m \in DOMAIN specification.colorimetry_data[1]} :
        x.name = name

Times(glyph, n) ==
    CASE n = 1 -> glyph
      [] n = 2 -> glyph \o glyph
      [] n = 3 -> glyph \o glyph \o glyph
      [] n = 4 -> glyph \o glyph \o glyph \o glyph

----------------------------------------------------------------------------
(* Properties.                                                             *)

\* C1: for S specifications of N samples each the renderer draws N+1 groups
\* of S bars; the bar of specification i (0-based) in group k is at
\* x = (i + k*(S+1)) * bar_width and is bar_width wide, so no two bars share
\* a position, the bars of a group are adjacent, and consecutive groups are
\* one bar width apart.
C1_BarGeometry ==
    Drawn =>
        LET S == Len(GivenSpecs)
            N == Len(GivenSpecs[1].Q_as)
            X(i, k) == chart.bars[i + 1].patches[k + 1].x
        IN  (\A n \in 1..S : Len(GivenSpecs[n].Q_as) = N) =>
            /\ Len(chart.bars) = S
            /\ \A i \in 0..(S - 1) :
                  /\ Len(chart.bars[i + 1].patches) = N + 1
                  /\ \A k \in 0..N :
                        /\ X(i, k) = (i + k * (S + 1)) * 50
                        /\ chart.bars[i + 1].patches[k + 1].width = 50
            /\ \A i1, i2 \in 0..(S - 1), k1, k2 \in 0..N :
                  X(i1, k1) = X(i2, k2) => i1 = i2 /\ k1 = k2
            /\ \A i \in 0..(S - 2), k \in 0..N : X(i + 1, k) - X(i, k) = 50
            /\ \A k \in 0..(N - 1) : X(0, k + 1) - (X(S - 1, k) + 50) = 50

C1_Witness ==
    /\ Drawn
    /\ entry = "bars"
    /\ Len(arg) = 3
    /\ Len(arg[1].Q_as) >= 2
    /\ chart.bars[3].patches[2].x = 300

\* C2: the first bar of every specification carries the overall score Q_a
\* and is filled (1, 1, 1); bar j >= 1 carries the score of the sample with
\* the j-th smallest key of Q_as (its height is the score's magnitude, its
\* label the score) and is filled with the colour converted from that same
\* sample's tristimulus value, every channel clipped into [0, 1].
C2_ScoresAndFills ==
    Drawn =>
        \A i \in DOMAIN GivenSpecs :
            LET specification == GivenSpecs[i]
                p == chart.bars[i].patches
                a == chart.bars[i].annotations
                labelled == Get(kwargs, "labels", TRUE)
            IN  /\ Len(p) = Len(specification.Q_as) + 1
                /\ labelled => Len(a) = Len(p)
                /\ p[1].color = <<100, 100, 100>>
                /\ p[1].height = Abs(specification.Q_a)
                /\ labelled => a[1] = specification.Q_a
                /\ \A j \in 1..Len(specification.Q_as) :
                      LET it == Ranked(specification, j)
                          rgb == XYZ_to_plotting_colourspace(
                                     SampleNamed(specification, it.name).XYZ)
                      IN  /\ p[j + 1].height = Abs(it.Q_a)
                          /\ labelled => a[j + 1] = it.Q_a
                          /\ \A c \in 1..3 :
                                /\ p[j + 1].color[c] \in 0..100
                                /\ rgb[c] \in 0..100 => p[j + 1].color[c] = rgb[c]
                                /\ rgb[c] < 0 => p[j + 1].color[c] = 0
                                /\ rgb[c] > 100 => p[j + 1].color[c] = 100

C2_Witness ==
    /\ Drawn
    /\ \E i \in DOMAIN GivenSpecs :
          LET specification == GivenSpecs[i]
              rgbs == {XYZ_to_plotting_colourspace(
                           specification.colorimetry_data[1][m].XYZ) :
                       m \in DOMAIN specification.colorimetry_data[1]}
          IN  /\ specification.Q_as[1].key > specification.Q_as[2].key
              /\ \E rgb \in rgbs : \E c \in 1..3 : rgb[c] < 0
              /\ \E rgb \in rgbs : \E c \in 1..3 : rgb[c] > 100
              /\ \E rgb \in rgbs : \E c \in 1..3 : rgb[c] \in 1..99

\* C3: hatching left at auto resolves to disabled for exactly one
\* specification and to enabled for more than one; an explicit True or False
\* is used unchanged whatever the number of specifications.  (The resolved
\* value is the legend flag the renderer hands to render.)
C3_HatchingResolution ==
    Drawn =>
        /\ HatchingAuto /\ Len(GivenSpecs) = 1 => chart.legend = FALSE
        /\ HatchingAuto /\ Len(GivenSpecs) > 1 => chart.legend = TRUE
        /\ ~HatchingAuto => chart.legend = kwargs["hatching"]

C3_Witness ==
    /\ Drawn
    /\ HatchingAuto
    /\ Len(GivenSpecs) = 1
    /\ chart.legend = FALSE

\* C4: with hatching disabled, a bar gets a hatch marker if and only if its
\* score is negative; every bar with a score >= 0 has no hatch.
C4_NegativeHatchOnly ==
    Drawn /\ HatchingDisabled =>
        \A i \in DOMAIN GivenSpecs :
            \A j \in DOMAIN chart.bars[i].patches :
                (chart.bars[i].patches[j].hatch # None)
                    <=> (Score(GivenSpecs[i], j) < 0)

C4_Witness ==
    /\ Drawn
    /\ HatchingDisabled
    /\ \E i \in DOMAIN GivenSpecs :
          /\ \E j \in DOMAIN chart.bars[i].patches :
                /\ Score(GivenSpecs[i], j) < 0
                /\ chart.bars[i].patches[j].hatch # None
          /\ \E j \in DOMAIN chart.bars[i].patches :
                /\ Score(GivenSpecs[i], j) = 0
                /\ chart.bars[i].patches[j].hatch = None

\* C5: with hatching enabled, all N+1 bars of the specification at position
\* i (0-based) get the palette glyph at index i modulo the palette length,
\* repeated hatching_repeat times; two specifications get the same glyph
\* only when their positions differ by a multiple of the palette length.
C5_HatchCycle ==
    Drawn /\ HatchingEnabled =>
        LET repeat == Get(kwargs, "hatching_repeat", 2)
            palette == <<"\\\\", "o", "x", ".", "*", "//">>
        IN  /\ \A i \in DOMAIN GivenSpecs :
                  /\ Len(chart.bars[i].patches) = Len(GivenSpecs[i].Q_as) + 1
                  /\ \A j \in DOMAIN chart.bars[i].patches :
                        chart.bars[i].patches[j].hatch =
                            Times(palette[((i - 1) % 6) + 1], repeat)
            /\ \A i1, i2 \in DOMAIN GivenSpecs :
                  chart.bars[i1].patches[1].hatch = chart.bars[i2].patches[1].hatch
                      => (i1 - i2) % 6 = 0

C5_Witness ==
    /\ Drawn
    /\ HatchingEnabled
    /\ Len(GivenSpecs) = 7
    /\ Get(kwargs, "hatching_repeat", 2) = 2
    /\ chart.bars[7].patches[2].hatch = "\\\\\\\\"
    /\ chart.bars[6].patches[2].hatch = "////"

\* C6: the x axis gets one tick label per bar group: "Qa" followed by
\* "Q1" ... "QN", as many labels as tick positions (N+1), the tick of group
\* k at the middle of the group.
C6_TickLabels ==
    Drawn =>
        LET S == Len(GivenSpecs)
            N == Len(GivenSpecs[S].Q_as)
            X(i, k) == chart.bars[i + 1].patches[k + 1].x
        IN  (\A n \in 1..S : Len(GivenSpecs[n].Q_as) = N) =>
            /\ Len(chart.xticks) = N + 1
            /\ Len(chart.xticklabels) = Len(chart.xticks)
            /\ chart.xticklabels[1] = "Qa"
            /\ \A n \in 1..N : chart.xticklabels[n + 1] = "Q" \o ToString(n)
            /\ \A k \in 0..N :
                  2 * chart.xticks[k + 1] = X(0, k) + (X(S - 1, k) + 50)

\* the final title a wrapper call builds from the distributions' names
RECURSIVE CommaJoined(_)
CommaJoined(names) ==
    IF Len(names) = 1 THEN names[1]
    ELSE CommaJoined(SubSeq(names, 1, Len(names) - 1)) \o ", " \o names[Len(names)]

BuiltTitle ==
    (IF entry \in {"single_cri", "multi_cri"} THEN "Colour Rendering Index - "
     ELSE "Colour Quality Scale - ") \o CommaJoined(spds)

\* C7 as stated: every wrapper call finalizes the chart with the title built
\* from the distributions' names.
C7_TitleAlwaysBuilt ==
    IsWrapper /\ pc = "done" => chart.title = BuiltTitle

\* C7 as amended: a wrapper call whose options carry no title finalizes the
\* chart with the built title ("Colour Rendering Index - " or "Colour
\* Quality Scale - ", then the names joined by ", " in input order), never
\* with the renderer's default "Colour Quality"; a call whose options carry
\* a title finalizes the chart with the caller's title.
C7_FinalTitle ==
    IsWrapper /\ pc = "done" =>
        /\ "title" \notin DOMAIN kwargs =>
              /\ chart.title = BuiltTitle
              /\ chart.title # "Colour Quality"
              /\ entry = "multi_cri" /\ spds = <<"F2", "Kinoton 75P">> =>
                    chart.title = "Colour Rendering Index - F2, Kinoton 75P"
        /\ "title" \in DOMAIN kwargs => chart.title = kwargs["title"]

C7_Witness ==
    /\ pc = "done"
    /\ entry = "multi_cri"
    /\ spds = <<"F2", "Kinoton 75P">>
    /\ "title" \notin DOMAIN kwargs
    /\ chart.title = "Colour Rendering Index - F2, Kinoton 75P"

\* C8: a single-input wrapper call makes the same collaborator calls, in the
\* same order, and returns the same result as the multi-input wrapper called
\* with the one-element list and the same options.
C8_SingleEqualsMulti ==
    pc = "done" /\ prev.set =>
        /\ calls = prev.calls
        /\ result = prev.result

C8_Witness ==
    /\ pc = "done"
    /\ prev.set
    /\ entry = "multi_cri"
    /\ arg = <<"Kinoton 75P">>
    /\ "title" \in DOMAIN kwargs
    /\ Len(prev.calls) > 3

\* C9: in the CRI wrapper every sample's tristimulus value in the first
\* colorimetry list of every specification is divided by 100 exactly once
\* before the renderer runs ((50, 100, 20) becomes (0.5, 1.0, 0.2)); names,
\* uv, UVW, the second list, the scores and the number and order of samples
\* are unchanged.  The CQS wrapper hands over what it computed.
C9_RescaleOnce ==
    IsWrapper /\ pc \in {"computed", "rescaled", "rendered", "titled", "done"} =>
        /\ Len(specifications) = Len(spds)
        /\ \A n \in DOMAIN spds :
              IF entry \in {"single_cri", "multi_cri"} /\ pc # "computed"
              THEN LET got == specifications[n]
                       was == colour_rendering_index(spds[n])
                   IN  /\ got.name = was.name
                       /\ got.Q_a = was.Q_a
                       /\ got.Q_as = was.Q_as
                       /\ got.colorimetry_data[2] = was.colorimetry_data[2]
                       /\ Len(got.colorimetry_data[1]) = Len(was.colorimetry_data[1])
                       /\ \A m \in DOMAIN was.colorimetry_data[1] :
                             LET g == got.colorimetry_data[1][m]
                                 w == was.colorimetry_data[1][m]
                             IN  /\ g.name = w.name
                                 /\ g.uv = w.uv
                                 /\ g.UVW = w.UVW
                                 /\ \A c \in 1..3 : g.XYZ[c] * 100 = w.XYZ[c]
                                 /\ w.XYZ = <<5000, 10000, 2000>>
                                       => g.XYZ = <<50, 100, 20>>
              ELSE IF entry \in {"single_cri", "multi_cri"}
                   THEN specifications[n] = colour_rendering_index(spds[n])
                   ELSE specifications[n] = colour_quality_scale(spds[n])

C9_Witness ==
    /\ pc = "rendered"
    /\ entry = "multi_cri"
    /\ Len(spds) = 2
    /\ specifications[1].colorimetry_data[1][1].XYZ = <<50, 100, 20>>
    /\ specifications[1].colorimetry_data[2][1].XYZ[2] >= 1000

\* the log of a finished wrapper call
C10_Log ==
    IsWrapper /\ pc = "done" =>
        LET renders == {n \in DOMAIN calls : calls[n].fn = "render"}
            invoked == {n \in DOMAIN calls : calls[n].fn = "colour_quality_bars_plot"}
            computed == {n \in DOMAIN calls :
                           calls[n].fn \in {"colour_rendering_index",
                                            "colour_quality_scale"}}
            last == calls[Len(calls)]
        IN  /\ Cardinality(renders) = 2
            /\ Cardinality(invoked) = 1
            /\ computed = 1..Len(spds)
            /\ invoked = {Len(spds) + 1}
            /\ \A n \in invoked : calls[n].args["standalone"] = FALSE
            /\ \E n \in renders :
                  /\ n < Len(calls)
                  /\ n > Len(spds) + 1
                  /\ calls[n].args["standalone"] = FALSE
            /\ last.fn = "render"
            /\ last.args["axes"] = "axes"
            /\ DOMAIN last.args = (DOMAIN kwargs) \cup {"axes", "title"}
            /\ \A k \in DOMAIN kwargs : last.args[k] = kwargs[k]
            /\ chart.shown = IF Get(kwargs, "standalone", TRUE) THEN 1 ELSE 0

\* the order of a wrapper call's steps
C10_Order ==
    /\ pc = "entered" => pc' = "computed"
    /\ pc = "computed" =>
          pc' = IF entry \in {"single_cri", "multi_cri"} THEN "rescaled"
                ELSE "rendered"
    /\ pc = "rescaled" => pc' = "rendered"
    /\ pc = "rendered" => pc' = "titled"
    /\ pc = "titled" => pc' = "done"
    /\ pc' = "rendered" =>
          /\ settings["standalone"] = FALSE
          /\ chart'.shown = 0
          /\ calls'[Len(calls')].fn = "render"
          /\ Len(calls') > Len(calls) + 1
    /\ pc \in {"rendered", "titled"} /\ pc' # "done" => calls' = calls
    /\ pc = "titled" =>
          /\ Len(calls') = Len(calls) + 1
          /\ calls'[Len(calls')].args = settings

\* C10: a multi-input wrapper call runs compute, (CRI only) rescale,
\* renderer, retitle, finalize in that order; the renderer is invoked with
\* standalone forced to False, so its own render call never composes the
\* chart; the final render call comes after the renderer has returned, on
\* the axes it returned and with the caller's options unmodified; render is
\* called exactly twice, the suppressed call first.
C10_Pipeline == [](C10_Log) /\ [][C10_Order]_vars

C10_Witness ==
    /\ pc = "done"
    /\ entry = "multi_cqs"
    /\ "standalone" \in DOMAIN kwargs
    /\ kwargs["standalone"] = TRUE
    /\ chart.shown = 1

====
